---- MODULE Spec2Model ----
(***************************************************************************)
(* Model of packages/playwright/src/cdp.ts: the module-level session cache *)
(* cdpSessionByPage with getCDPSession / detachCPDSession, and the command *)
(* functions findElements, querySelectorAll, getElementAttribute,          *)
(* sendKeysToElement and executeScript that talk to the browser through    *)
(* the cached session.                                                     *)
(*                                                                         *)
(* Every async function suspends at each await; one action is one run of   *)
(* the code between two suspension points (JavaScript runs such a stretch  *)
(* without interruption).                                                  *)
(***************************************************************************)
EXTENDS Integers, Sequences, FiniteSets, Bags, TLC

\* ---------------------------------------------------------------- bounds
MaxInFlight == 2
NumPages == 2
MaxSessions == 2
MaxAttrs == 2
MaxText == 2
MaxValues == 2
MaxNodes == 2
MaxArgs == 1

Pages == 1..NumPages
Sessions == 1..MaxSessions

\* "no session": the value of Map.get on a missing key, and of unset locals
None == 0

\* the strings of the model: attribute names and values
AttrStrings == {"id", "foo", "class"}
\* the characters of typed text, each as its UTF-16 code units: a character of
\* the basic plane is one unit, any other a high and a low surrogate
Chars == {<<"a">>, <<"D83D", "DE00">>}
HighSurrogates == {"D83D"}
\* findElements' args.using and args.value
Strategies == {"css selector", "tag name", "xpath", "iframe"}
Selectors == {"iframe", "div"}
\* className of the object a script returns
ClassNames == {"NodeList", "HTMLHtmlElement", "Object"}
\* the kinds of argument executeScript marshals
ArgKinds == {"primitive", "element", "other"}

\* JavaScript's undefined
Undefined == "<undefined>"

\* the sequences over S of length at most n
SeqsUpTo(S, n) == UNION {[1..k -> S] : k \in 0..n}

VARIABLES
  cdpSessionByPage,  \* the Map<Page, CDPSession>: [Pages -> Sessions \cup {None}]
  created,           \* number of sessions newCDPSession has produced so far
  owner,             \* owner[s]: the page session s was created for (None: not created)
  detachInvoked,     \* the sessions on which detach() has been invoked
  inflight,          \* the bag of getCDPSession / detachCPDSession calls suspended at their await
  last,              \* the most recent completed getCDPSession / detachCPDSession call
  hist,              \* hist[p]: what the latest completed call for page p did
  cpc,               \* where the command function in progress is suspended ("idle": none)
  cmd,               \* the command function called last, with its arguments
  csess,             \* its local cdpSession (None until getCDPSession resolved)
  ci,                \* its loop index i (0-based, as in the code)
  sent,              \* the cdpSession.send calls it issued, in order
  resp,              \* the protocol response its result was computed from
  outcome,           \* "pending", "return" or "throw"
  result,            \* the value returned, or the error thrown
  lookups            \* the getCDPSession calls it made

sessionVars == <<cdpSessionByPage, created, owner, detachInvoked, inflight, last, hist>>
cmdVars == <<cpc, cmd, csess, ci, sent, resp, outcome, result, lookups>>
vars == <<sessionVars, cmdVars>>

\* a suspended call: getCDPSession awaiting newCDPSession (sess = None), or
\* detachCPDSession awaiting detach() of sess; cont tells who awaits the call,
\* an outside caller or the command function in progress
Suspended(o, p, s, k) == [op |-> o, page |-> p, sess |-> s, cont |-> k]

\* a completed call: hadEntry tells whether the map had the page when the call
\* was made, ret is the session returned (get) or detached (detach), attached
\* whether detach() had not been invoked on ret when the call completed
Completed(o, p, res, s, had, att) ==
  [op |-> o, page |-> p, outcome |-> res, ret |-> s, hadEntry |-> had, attached |-> att]

NoCall == Completed("none", None, "none", None, FALSE, FALSE)

\* hist[p].phase: "none" no call for p completed yet; "got": the latest
\* completed call was a getCDPSession that returned hist[p].sess; "detached":
\* the latest completed call was a detachCPDSession that returned, having found
\* hist[p].sess cached; "failed": it was a detachCPDSession that threw
NoHist == [phase |-> "none", sess |-> None]

\* ------------------------------------------------------- the session cache

\* cdpSessionByPage.has(page)
Has(cache, p) == cache[p] # None

\* MapDelete with the bug of deleting nothing
MapDeleteKeeps(cache, p) == cache

\* MapDelete with the bug of clearing the whole map
MapDeleteClearsAll(cache, p) == [q \in Pages |-> None]

\* cdpSessionByPage.delete(page)
MapDelete(cache, p) == [cache EXCEPT ![p] = None]

\* cdpSessionByPage.set(page, session)
MapSet(cache, p, s) == [cache EXCEPT ![p] = s]

\* the sessions created for page p on which detach() was not invoked
Attached(p) == {s \in 1..created : owner[s] = p /\ s \notin detachInvoked}

InFlight == BagCardinality(inflight)

\* getCDPSession(page), up to its await: a cached session is returned at once,
\* otherwise newCDPSession is requested and the call suspends
GetStart(p, k) ==
  /\ IF Has(cdpSessionByPage, p)
       THEN /\ last' = Completed("get", p, "return", cdpSessionByPage[p], TRUE,
                                 cdpSessionByPage[p] \notin detachInvoked)
            /\ hist' = [hist EXCEPT ![p] = [phase |-> "got", sess |-> cdpSessionByPage[p]]]
            /\ UNCHANGED inflight
       ELSE /\ inflight' = inflight (+) SetToBag({Suspended("get", p, None, k)})
            /\ UNCHANGED <<last, hist>>
  /\ UNCHANGED <<cdpSessionByPage, created, owner, detachInvoked>>

\* a call of getCDPSession(page) from outside
GetCall(p) ==
  /\ cpc = "idle"
  /\ InFlight < MaxInFlight
  /\ GetStart(p, "caller")
  /\ UNCHANGED cmdVars

\* getCDPSession(page), after its await: newCDPSession resolved with a new
\* session object, which is stored and then read back from the map
GetResume(c) ==
  /\ BagIn(c, inflight) /\ c.op = "get"
  /\ created < MaxSessions
  /\ LET s == created + 1
         cache == MapSet(cdpSessionByPage, c.page, s)
     IN /\ created' = s
        /\ owner' = [owner EXCEPT ![s] = c.page]
        /\ cdpSessionByPage' = cache
        /\ last' = Completed("get", c.page, "return", cache[c.page], FALSE,
                             cache[c.page] \notin detachInvoked)
        /\ hist' = [hist EXCEPT ![c.page] = [phase |-> "got", sess |-> cache[c.page]]]
        /\ csess' = IF c.cont = "command" THEN cache[c.page] ELSE csess
  /\ inflight' = inflight (-) SetToBag({c})
  /\ UNCHANGED <<detachInvoked, cpc, cmd, ci, sent, resp, outcome, result, lookups>>

\* detachCPDSession(page), up to its await: without an entry the call is over,
\* otherwise detach() is invoked on the cached session and the call suspends
DetachCall(p) ==
  /\ cpc = "idle"
  /\ InFlight < MaxInFlight
  /\ IF Has(cdpSessionByPage, p)
       THEN /\ detachInvoked' = detachInvoked \cup {cdpSessionByPage[p]}
            /\ inflight' = inflight (+)
                 SetToBag({Suspended("detach", p, cdpSessionByPage[p], "caller")})
            /\ UNCHANGED <<last, hist>>
       ELSE /\ last' = Completed("detach", p, "return", None, FALSE, FALSE)
            /\ hist' = [hist EXCEPT ![p] = [phase |-> "detached", sess |-> None]]
            /\ UNCHANGED <<detachInvoked, inflight>>
  /\ UNCHANGED <<cdpSessionByPage, created, owner>>
  /\ UNCHANGED cmdVars

\* detachCPDSession(page), after its await: detach() resolved, the entry of
\* the page is deleted
DetachResume(c) ==
  /\ BagIn(c, inflight) /\ c.op = "detach"
  /\ cdpSessionByPage' = MapDelete(cdpSessionByPage, c.page)
  /\ last' = Completed("detach", c.page, "return", c.sess, TRUE, FALSE)
  /\ hist' = [hist EXCEPT ![c.page] = [phase |-> "detached", sess |-> c.sess]]
  /\ inflight' = inflight (-) SetToBag({c})
  /\ UNCHANGED <<created, owner, detachInvoked>>
  /\ UNCHANGED cmdVars

\* detachCPDSession(page), after its await: detach() rejected, the await
\* throws and the delete is never reached
DetachReject(c) ==
  /\ BagIn(c, inflight) /\ c.op = "detach"
  /\ last' = Completed("detach", c.page, "throw", c.sess, TRUE, FALSE)
  /\ hist' = [hist EXCEPT ![c.page] = [phase |-> "failed", sess |-> c.sess]]
  /\ inflight' = inflight (-) SetToBag({c})
  /\ UNCHANGED <<cdpSessionByPage, created, owner, detachInvoked>>
  /\ UNCHANGED cmdVars

NoCommand == [name |-> "none", page |-> None]

Init ==
  /\ cdpSessionByPage = [p \in Pages |-> None]
  /\ created = 0
  /\ owner = [s \in Sessions |-> None]
  /\ detachInvoked = {}
  /\ inflight = EmptyBag
  /\ last = NoCall
  /\ hist = [p \in Pages |-> NoHist]
  /\ cpc = "idle"
  /\ cmd = NoCommand
  /\ csess = None
  /\ ci = 0
  /\ sent = <<>>
  /\ resp = Undefined
  /\ outcome = "return"
  /\ result = Undefined
  /\ lookups = 0

\* ------------------------------------------------- the command functions

\* [WEBDRIVER_ELEMENT_KEY]: objectId
ElementRef(objectId) == [element |-> objectId]

\* the objectId the browser gives node number n
ObjectId(n) == <<"object", n>>

Call(m, prm) == [method |-> m, param |-> prm]

\* a command function is called: its locals are fresh
Begin(c) ==
  /\ cpc = "idle"
  /\ InFlight = 0
  /\ cmd' = c
  /\ ci' = 0
  /\ sent' = <<>>
  /\ resp' = Undefined

\* const cdpSession = await getCDPSession(page)
AwaitSession(p) ==
  /\ GetStart(p, "command")
  /\ csess' = IF Has(cdpSessionByPage, p) THEN cdpSessionByPage[p] ELSE None
  /\ lookups' = 1

\* the command function goes on after an await other than that of getCDPSession
Continue(at) ==
  /\ cpc = at
  /\ UNCHANGED sessionVars
  /\ UNCHANGED <<cmd, csess, lookups>>

\* cdpSession.send(...) is called and awaited
Send(calls, at) ==
  /\ sent' = sent \o calls
  /\ cpc' = at
  /\ UNCHANGED <<outcome, result>>

Return(v) ==
  /\ outcome' = "return"
  /\ result' = v
  /\ cpc' = "idle"

Throw(e) ==
  /\ outcome' = "throw"
  /\ result' = e
  /\ cpc' = "idle"

\* FindElementsRoute with the bug of a switch without its default branch
FindElementsRouteNoDefault(using, value) ==
  IF value = "iframe" THEN "empty" ELSE "query"

\* FindElementsRoute with the bug of testing the selector after the strategy
FindElementsRouteSwitchFirst(using, value) ==
  IF using \in {"css selector", "tag name"}
    THEN IF value = "iframe" THEN "empty" ELSE "query"
    ELSE "throw"

\* findElements, lines 201-209: which way a call goes
FindElementsRoute(using, value) ==
  IF value = "iframe" THEN "empty"
  ELSE IF using \in {"css selector", "tag name"} THEN "query"
  ELSE "throw"

\* findElements(page, {using, value}), up to the await in querySelectorAll
FindElements(p, using, value) ==
  /\ Begin([name |-> "findElements", page |-> p, using |-> using, value |-> value])
  /\ LET route == FindElementsRoute(using, value) IN
     IF route = "query"
       THEN /\ AwaitSession(p)
            /\ cpc' = "qsa:session"
            /\ outcome' = "pending"
            /\ result' = Undefined
       ELSE /\ IF route = "empty"
                 THEN Return(<<>>)
                 ELSE Throw(<<"Unsupported findElements strategy", using>>)
            /\ lookups' = 0
            /\ csess' = None
            /\ UNCHANGED sessionVars

\* querySelectorAll, line 214
QsaGetDocument ==
  /\ cpc = "qsa:session" /\ csess # None
  /\ Send(<<Call("DOM.getDocument", -1)>>, "qsa:getDocument")
  /\ UNCHANGED sessionVars
  /\ UNCHANGED <<cmd, csess, ci, resp, lookups>>

\* querySelectorAll, line 215
QsaQuerySelectorAll ==
  /\ Continue("qsa:getDocument")
  /\ Send(<<Call("DOM.querySelectorAll", cmd.value)>>, "qsa:querySelectorAll")
  /\ UNCHANGED <<ci, resp>>

\* querySelectorAll, lines 216-217: one DOM.resolveNode per node id returned,
\* all issued before any is awaited
QsaResolveNodes(n) ==
  /\ Continue("qsa:querySelectorAll")
  /\ resp' = [k \in 1..n |-> k]
  /\ Send([k \in 1..n |-> Call("DOM.resolveNode", k)], "qsa:resolveNode")
  /\ UNCHANGED ci

\* querySelectorAll, lines 218-219
QsaReturn ==
  /\ Continue("qsa:resolveNode")
  /\ Return([k \in 1..Len(resp) |-> ElementRef(ObjectId(resp[k]))])
  /\ UNCHANGED <<ci, sent, resp>>

\* getElementAttribute, lines 114-118: the scan of the flattened list
\* (indices are 1-based here, attributes[i + 1] past the end is undefined)
ScanAttributes(attributes, name) ==
  LET hits == {i \in 1..Len(attributes) : attributes[i] = name} IN
  IF hits = {} THEN Undefined
  ELSE LET i == CHOOSE h \in hits : \A g \in hits : h <= g IN
       IF i + 1 <= Len(attributes) THEN attributes[i + 1] ELSE Undefined

\* getElementAttribute(page, {id, name}), up to its first await
GetElementAttribute(p, id, name) ==
  /\ Begin([name |-> "getElementAttribute", page |-> p, id |-> id, attr |-> name])
  /\ AwaitSession(p)
  /\ cpc' = "gea:session"
  /\ outcome' = "pending"
  /\ result' = Undefined

\* getElementAttribute, line 111
GeaRequestNode ==
  /\ cpc = "gea:session" /\ csess # None
  /\ Send(<<Call("DOM.requestNode", cmd.id)>>, "gea:requestNode")
  /\ UNCHANGED sessionVars
  /\ UNCHANGED <<cmd, csess, ci, resp, lookups>>

\* getElementAttribute, line 112
GeaGetAttributes ==
  /\ Continue("gea:requestNode")
  /\ Send(<<Call("DOM.getAttributes", cmd.id)>>, "gea:getAttributes")
  /\ UNCHANGED <<ci, resp>>

\* getElementAttribute, lines 114-119, with the attributes the browser returned
GeaReturn(attributes) ==
  /\ Continue("gea:getAttributes")
  /\ resp' = attributes
  /\ Return(ScanAttributes(attributes, cmd.attr))
  /\ UNCHANGED <<ci, sent>>

\* sendKeysToElement, line 93: args.value[0]; a string is the sequence of its
\* UTF-16 code units, which is what value.length and value[i] go by
FirstValue(value) == IF Len(value) >= 1 THEN value[1] ELSE Undefined

\* sendKeysToElement(page, {id, value}), up to its first await
SendKeysToElement(p, id, value) ==
  /\ Begin([name |-> "sendKeysToElement", page |-> p, id |-> id, value |-> value])
  /\ AwaitSession(p)
  /\ cpc' = "keys:session"
  /\ outcome' = "pending"
  /\ result' = Undefined

\* sendKeysToElement, lines 93-95
KeysRequestNode ==
  /\ cpc = "keys:session" /\ csess # None
  /\ Send(<<Call("DOM.requestNode", cmd.id)>>, "keys:requestNode")
  /\ UNCHANGED sessionVars
  /\ UNCHANGED <<cmd, csess, ci, resp, lookups>>

\* sendKeysToElement, line 96
KeysFocus ==
  /\ Continue("keys:requestNode")
  /\ Send(<<Call("DOM.focus", cmd.id)>>, "keys:loop")
  /\ UNCHANGED <<ci, resp>>

\* sendKeysToElement, lines 98-105: the loop test, and one round of the loop
\* or the return; value.length of an undefined value is a TypeError
KeysLoop ==
  /\ Continue("keys:loop")
  /\ LET value == FirstValue(cmd.value) IN
     IF Len(cmd.value) = 0
       THEN Throw("TypeError") /\ UNCHANGED <<ci, sent>>
       ELSE IF ci < Len(value)
         THEN /\ Send(<<Call("Input.dispatchKeyEvent", <<value[ci + 1]>>)>>, "keys:loop")
              /\ ci' = ci + 1
         ELSE Return(TRUE) /\ UNCHANGED <<ci, sent>>
  /\ UNCHANGED resp

\* executeScript, lines 231-239: one marshalled argument
MarshalArg(arg) ==
  IF arg = "primitive" THEN "value"
  ELSE IF arg = "element" THEN "objectId"
  ELSE "undefined"

\* executeScript(page, {script, args}), up to its first await
ExecuteScript(p, args) ==
  /\ Begin([name |-> "executeScript", page |-> p,
            functionArgs |-> [k \in 1..Len(args) |-> MarshalArg(args[k])]])
  /\ AwaitSession(p)
  /\ cpc' = "script:session"
  /\ outcome' = "pending"
  /\ result' = Undefined

\* executeScript, line 242
ScriptEnable ==
  /\ cpc = "script:session" /\ csess # None
  /\ Send(<<Call("Runtime.enable", Undefined)>>, "script:enable")
  /\ UNCHANGED sessionVars
  /\ UNCHANGED <<cmd, csess, ci, resp, lookups>>

\* executeScript, line 243
ScriptEvaluateWindow ==
  /\ Continue("script:enable")
  /\ Send(<<Call("Runtime.evaluate", "window")>>, "script:evaluate")
  /\ UNCHANGED <<ci, resp>>

\* executeScript, lines 245-249: the script is called on window
ScriptCallFunctionOn ==
  /\ Continue("script:evaluate")
  /\ Send(<<Call("Runtime.callFunctionOn", cmd.functionArgs)>>, "script:callFunctionOn")
  /\ UNCHANGED <<ci, resp>>

\* executeScript, lines 251-268: the branch on the class of what the script returned
ScriptBranch(className) ==
  /\ Continue("script:callFunctionOn")
  /\ resp' = className
  /\ IF className = "NodeList"
       THEN Send(<<Call("Runtime.getProperties", "result")>>, "script:getProperties")
       ELSE IF className = "HTMLHtmlElement"
         THEN Return(ElementRef("result")) /\ UNCHANGED sent
         ELSE Send(<<Call("Runtime.callFunctionOn", cmd.functionArgs)>>, "script:byValue")
  /\ UNCHANGED ci

\* executeScript, line 256: the own properties whose name parses as a number
\* (a NodeList of n nodes has the properties 0 .. n-1 and length)
ScriptNodeList(n) ==
  /\ Continue("script:getProperties")
  /\ Return([k \in 1..n |-> ElementRef(ObjectId(k))])
  /\ UNCHANGED <<ci, sent, resp>>

\* executeScript, line 269
ScriptByValue ==
  /\ Continue("script:byValue")
  /\ Return("value")
  /\ UNCHANGED <<ci, sent, resp>>

\* getCDPSession / detachCPDSession called at any time: a call may start while
\* others are suspended
Next ==
  \/ \E p \in Pages : GetCall(p)
  \/ \E c \in BagToSet(inflight) : GetResume(c)
  \/ \E p \in Pages : DetachCall(p)
  \/ \E c \in BagToSet(inflight) : DetachResume(c)
  \/ \E c \in BagToSet(inflight) : DetachReject(c)

Spec == Init /\ [][Next]_vars

\* getCDPSession / detachCPDSession called one after the other: a call starts
\* only when no call is suspended
NextSeq ==
  \/ \E p \in Pages : InFlight = 0 /\ GetCall(p)
  \/ \E c \in BagToSet(inflight) : GetResume(c)
  \/ \E p \in Pages : InFlight = 0 /\ DetachCall(p)
  \/ \E c \in BagToSet(inflight) : DetachResume(c)
  \/ \E c \in BagToSet(inflight) : DetachReject(c)

SpecSeq == Init /\ [][NextSeq]_vars

\* the flattened attribute lists DOM.getAttributes returns: name, value, name,
\* value, ... with no name twice
AttributeLists ==
  {a \in SeqsUpTo(AttrStrings, 2 * MaxAttrs) :
     /\ Len(a) % 2 = 0
     /\ \A i, j \in 1..Len(a) : (i % 2 = 1 /\ j % 2 = 1 /\ i # j) => a[i] # a[j]}

RECURSIVE Flatten(_)
\* the concatenation of a sequence of sequences
Flatten(ss) == IF ss = <<>> THEN <<>> ELSE Head(ss) \o Flatten(Tail(ss))

\* the JavaScript strings a client may send, each the code units of a text of
\* at most MaxText characters, and the arrays of them it sends as args.value
Strings == {Flatten(text) : text \in SeqsUpTo(Chars, MaxText)}
KeyValues == SeqsUpTo(Strings, MaxValues)

\* findElements called again and again, each call after the one before is over
NextFind ==
  \/ \E c \in BagToSet(inflight) : GetResume(c)
  \/ \E p \in Pages, using \in Strategies, value \in Selectors : FindElements(p, using, value)
  \/ QsaGetDocument
  \/ QsaQuerySelectorAll
  \/ \E n \in 0..MaxNodes : QsaResolveNodes(n)
  \/ QsaReturn

SpecFind == Init /\ [][NextFind]_vars

\* getElementAttribute called again and again
NextAttr ==
  \/ \E c \in BagToSet(inflight) : GetResume(c)
  \/ \E p \in Pages, name \in AttrStrings : GetElementAttribute(p, "node", name)
  \/ GeaRequestNode
  \/ GeaGetAttributes
  \/ \E attributes \in AttributeLists : GeaReturn(attributes)

SpecAttr == Init /\ [][NextAttr]_vars

\* sendKeysToElement called again and again
NextKeys ==
  \/ \E c \in BagToSet(inflight) : GetResume(c)
  \/ \E p \in Pages, value \in KeyValues : SendKeysToElement(p, "node", value)
  \/ KeysRequestNode
  \/ KeysFocus
  \/ KeysLoop

SpecKeys == Init /\ [][NextKeys]_vars

\* executeScript called again and again
NextScript ==
  \/ \E c \in BagToSet(inflight) : GetResume(c)
  \/ \E p \in Pages, args \in SeqsUpTo(ArgKinds, MaxArgs) : ExecuteScript(p, args)
  \/ ScriptEnable
  \/ ScriptEvaluateWindow
  \/ ScriptCallFunctionOn
  \/ \E className \in ClassNames : ScriptBranch(className)
  \/ \E n \in 0..MaxNodes : ScriptNodeList(n)
  \/ ScriptByValue

SpecScript == Init /\ [][NextScript]_vars

\* ------------------------------------------------ claims: the session cache

\* a call completed in the step: the bag of suspended calls did not grow, and
\* last' describes the completed call
CallCompleted == BagCardinality(inflight') <= BagCardinality(inflight)

\* C1: in every reachable state every page has at most one session that was
\* created for it and on which detach() was not invoked, whatever the
\* interleaving of getCDPSession and detachCPDSession calls
C1_AtMostOneAttachedSession == \A p \in Pages : Cardinality(Attached(p)) <= 1

C3_DetachEffect ==
  [][(CallCompleted /\ last'.op = "detach" /\ last'.outcome = "return") =>
       IF last'.hadEntry
         THEN /\ last'.ret \in detachInvoked'
              /\ ~Has(cdpSessionByPage', last'.page)
              /\ \A q \in Pages \ {last'.page} : cdpSessionByPage'[q] = cdpSessionByPage[q]
         ELSE /\ cdpSessionByPage' = cdpSessionByPage
              /\ detachInvoked' = detachInvoked]_vars

\* a detachCPDSession that found an entry has completed normally while another
\* page has a cached session
C3_Witness ==
  /\ last.op = "detach" /\ last.outcome = "return" /\ last.hadEntry
  /\ \E q \in Pages \ {last.page} : Has(cdpSessionByPage, q)

\* C9: every session getCDPSession returns is one on which detach() has not
\* been invoked at the moment it is returned
C9_ReturnedSessionAttached ==
  (last.op = "get" /\ last.outcome = "return") => last.attached

\* C10: every session created and stored by getCDPSession is the value cached
\* for its page or has had detach() invoked on it
C10_NoSessionLeaked ==
  \A s \in 1..created : cdpSessionByPage[owner[s]] = s \/ s \in detachInvoked

\* --------------------------------------------- claims: the command functions

IsKeyEvent(c) == c.method = "Input.dispatchKeyEvent"
IsScriptCall(c) == c.method = "Runtime.callFunctionOn"
TextOf(c) == c.param

\* the text of each 'char' key event of a log, in order
KeyEventTexts(log) ==
  LET events == SelectSeq(log, IsKeyEvent) IN [k \in 1..Len(events) |-> TextOf(events[k])]

RECURSIVE Characters(_)
\* the characters of a string of UTF-16 code units, in order
Characters(units) ==
  IF units = <<>> THEN <<>>
  ELSE IF Head(units) \in HighSurrogates /\ Len(units) >= 2
    THEN <<SubSeq(units, 1, 2)>> \o Characters(SubSeq(units, 3, Len(units)))
    ELSE <<SubSeq(units, 1, 1)>> \o Characters(Tail(units))

\* the value paired with name in a flattened list name, value, name, value, ...
PairedValue(attributes, name) ==
  LET ks == {k \in 1..(Len(attributes) \div 2) : attributes[2 * k - 1] = name} IN
  IF ks = {} THEN Undefined ELSE attributes[2 * (CHOOSE k \in ks : TRUE)]

FindElementsDone == cmd.name = "findElements" /\ cpc = "idle"

UnsupportedStrategyThrown ==
  /\ outcome = "throw"
  /\ result[1] = "Unsupported findElements strategy"
  /\ sent = <<>>

EmptyWithoutQuery ==
  /\ outcome = "return"
  /\ result = <<>>
  /\ sent = <<>>
  /\ lookups = 0

\* C4 as stated: findElements throws the 'unsupported strategy' error and
\* issues no protocol call for every strategy other than 'css selector',
\* 'tag name' and 'iframe', whatever the selector
C4_UnsupportedStrategyThrows ==
  (cmd.name = "findElements" /\ cmd.using \notin {"css selector", "tag name", "iframe"})
    => UnsupportedStrategyThrown

\* C4 as amended: findElements throws the 'unsupported strategy' error and
\* issues no protocol call for every strategy other than 'css selector',
\* 'tag name' and 'iframe', provided the selector is not 'iframe'
C4_UnsupportedStrategyThrowsUnlessIframeSelector ==
  (/\ cmd.name = "findElements"
   /\ cmd.using \notin {"css selector", "tag name", "iframe"}
   /\ cmd.value # "iframe")
    => UnsupportedStrategyThrown

\* findElements was called with strategy xpath and a selector other than iframe
C4_Witness ==
  FindElementsDone /\ cmd.using = "xpath" /\ cmd.value = "div" /\ outcome = "throw"

\* C5 as stated: findElements with strategy 'iframe' returns an empty result
\* for every selector, with no protocol call and no session lookup
C5_IframeStrategyEmpty ==
  (cmd.name = "findElements" /\ cmd.using = "iframe") => EmptyWithoutQuery

\* C5 as amended: findElements with selector 'iframe' returns an empty result
\* for every strategy, with no protocol call and no session lookup
C5_IframeSelectorEmpty ==
  (cmd.name = "findElements" /\ cmd.value = "iframe") => EmptyWithoutQuery

\* findElements was called with selector iframe and an unsupported strategy
C5_Witness ==
  FindElementsDone /\ cmd.value = "iframe" /\ cmd.using = "xpath" /\ outcome = "return"

\* C6: getElementAttribute returns the value paired with the requested name in
\* the list DOM.getAttributes returned, and undefined when no attribute has
\* that name
C6_AttributeValue ==
  (cmd.name = "getElementAttribute" /\ cpc = "idle")
    => (outcome = "return" /\ result = PairedValue(resp, cmd.attr))

\* C7: sendKeysToElement sends DOM.focus before any key event, and when it
\* returns the 'char' key events it sent are the characters of the text given
\* in args.value, one event per character, in order
C7_KeysTyped ==
  cmd.name = "sendKeysToElement" =>
    /\ \A i \in 1..Len(sent) :
         IsKeyEvent(sent[i]) => \E j \in 1..(i - 1) : sent[j].method = "DOM.focus"
    /\ (cpc = "idle" /\ outcome = "return")
         => KeyEventTexts(sent) = Characters(Flatten(cmd.value))

\* C8: a call of executeScript calls the script in the browser exactly once
C8_ScriptCalledOnce ==
  cmd.name = "executeScript" =>
    /\ Len(SelectSeq(sent, IsScriptCall)) <= 1
    /\ cpc = "idle" => Len(SelectSeq(sent, IsScriptCall)) = 1

====
